---- MODULE Spec2Model ----
(***************************************************************************)
(* Model of fcl's collision object (CollisionGeometry / CollisionObject)   *)
(* and of the brute-force broadphase manager NaiveCollisionManager.        *)
(*                                                                         *)
(* The specifications share the variables:                                 *)
(*   SpecReg   the registry operations of the managers,                    *)
(*   SpecSnap  the registry operations with getObjects, setup and update,  *)
(*   Spec      the six query forms, run one loop step at a time,           *)
(*   SpecCross the cross queries on two registries of several entries,     *)
(*   SpecObj   the pose setters and computeAABB of the objects,            *)
(*   SpecNew   the constructors of the objects,                            *)
(*   SpecGeom  the cost density and the thresholds of the geometries.      *)
(***************************************************************************)
EXTENDS Integers, Sequences, FiniteSets, Bags, TLC

VARIABLES
  objs,        \* NaiveCollisionManager::objs, the std::list of each manager
  registered,  \* history: bag of the entries registered so far, per manager
  removed,     \* history: bag of the entries removed so far, per manager
  out,         \* the caller's vector handed to getObjects
  last,        \* history: the last operation called and the state it found
  t,           \* CollisionObject::t, the pose of each object
  aabb,        \* CollisionObject::aabb, the cached world bound of each object
  built,       \* the objects constructed so far
  nlocal,      \* history: calls of computeLocalAABB() so far, per geometry
  cg,          \* CollisionGeometry: cost_density and the two thresholds
  pc,          \* position of the running query: idle, loop, call, done
  query,       \* the running query: its form and its query object
  it1,         \* outer cursor (position in this manager's list)
  it2,         \* inner cursor (position in the traversed list)
  min_dist,    \* the local min_dist of a distance query
  arg,         \* the distance argument of the callback invocation in progress
  calls,       \* history: the callback invocations of the query, in order
  examined,    \* history: the cursor pairs the query tested, in order
  stopped      \* history: a callback invocation of the query returned true

regVars == <<objs, registered, removed>>
geomVars == <<built, nlocal, cg>>
objVars == <<t, aabb, geomVars>>
qVars   == <<pc, query, it1, it2, min_dist, arg, calls, examined, stopped>>
vars    == <<objs, registered, removed, out, last, t, aabb, built, nlocal, cg,
             pc, query, it1, it2, min_dist, arg, calls, examined, stopped>>

----------------------------------------------------------------------------
(* Bounds of the model *)

\* most entries registered with the manager that runs the queries
MaxLen == 3
\* most entries registered with the other manager of a cross query
MaxOther == 1
\* longest vector handed to registerObjects
MaxVec == 2
\* largest value given to cost_density and to the two thresholds
MaxScalar == 2
\* most entries of either manager in the specification of the cross queries
MaxCross == 2

----------------------------------------------------------------------------
(* The universe: managers, objects, geometries, poses *)

Managers == {"m1", "m2"}
Objects  == {"o1", "o2", "o3"}
Geoms    == {"g1", "g2"}

Range(s) == {s[i] : i \in 1..Len(s)}

SeqsUpTo(S, n) == UNION {[1..k -> S] : k \in 0..n}

Max2(a, b) == IF a >= b THEN a ELSE b

Vec(x, y, z) == <<x, y, z>>
VAdd(a, b) == <<a[1] + b[1], a[2] + b[2], a[3] + b[3]>>
VSub(a, b) == <<a[1] - b[1], a[2] - b[2], a[3] - b[3]>>

Axes == 1..3

\* The rotations of the model: the identity and a quarter turn about z.
Rotations == {"I", "Z90"}

\* Quaternion3f::isIdentity
IsIdentityRotation(q) == q = "I"

\* Matrix3f * Vec3f for the rotations of the model
Rotate(q, v) == IF q = "I" THEN v ELSE <<0 - v[2], v[1], v[3]>>

\* Transform3f: a rotation q and a translation T
Transform3f(q, T) == [q |-> q, T |-> T]

\* Transform3f::transform: q * v + T
Transform(tf, v) == VAdd(Rotate(tf.q, v), tf.T)

\* Transform3f::isIdentity
IsIdentityTransform(tf) == IsIdentityRotation(tf.q) /\ tf.T = Vec(0, 0, 0)

Translations == {Vec(0, 0, 0), Vec(5, 0, 0)}

Poses == {Transform3f(q, T) : q \in Rotations, T \in Translations}

\* AABB: min_ and max_ corners
AABB(lo, hi) == [min_ |-> lo, max_ |-> hi]

\* AABB::overlap: closed intervals meet on every axis
Overlap(a, b) ==
  \A k \in Axes : ~(a.min_[k] > b.max_[k]) /\ ~(a.max_[k] < b.min_[k])

\* gap between two boxes on one axis, 0 when their intervals meet
AxisGap(a, b, k) ==
  Max2(0, Max2(a.min_[k] - b.max_[k], b.min_[k] - a.max_[k]))

\* AABB::distance: a symmetric, non-negative lower bound of the distance of
\* the boxes' contents, 0 when the boxes touch or overlap (the largest axis gap)
Distance(a, b) ==
  Max2(AxisGap(a, b, 1), Max2(AxisGap(a, b, 2), AxisGap(a, b, 3)))

----------------------------------------------------------------------------
(* CollisionGeometry: the local bound computeLocalAABB() leaves *)

\* g1 is a unit sphere at the local origin, g2 a unit ball centred at (2,0,0)
aabb_center(g) == IF g = "g1" THEN Vec(0, 0, 0) ELSE Vec(2, 0, 0)

aabb_radius(g) == 1

aabb_local(g) ==
  AABB(VSub(aabb_center(g), Vec(aabb_radius(g), aabb_radius(g), aabb_radius(g))),
       VAdd(aabb_center(g), Vec(aabb_radius(g), aabb_radius(g), aabb_radius(g))))

\* CollisionObject::cgeom: o1 and o2 share g1, o3 is built on g2
cgeom(o) == IF o = "o3" THEN "g2" ELSE "g1"

----------------------------------------------------------------------------
(* CollisionObject *)

\* a computeAABB that always takes the bounding-sphere path
ComputedAABBSphereOnly(g, tf) ==
  LET center == Transform(tf, aabb_center(g))
      delta  == Vec(aabb_radius(g), aabb_radius(g), aabb_radius(g))
  IN  AABB(VSub(center, delta), VAdd(center, delta))

\* the box computeAABB() assigns to aabb for an object of geometry g at pose tf
ComputedAABB(g, tf) ==
  IF IsIdentityRotation(tf.q)
  THEN aabb_local(g)
  ELSE LET center == Transform(tf, aabb_center(g))
           delta  == Vec(aabb_radius(g), aabb_radius(g), aabb_radius(g))
       IN  AABB(VSub(center, delta), VAdd(center, delta))

\* CollisionGeometry(): the defaults of the three classification scalars
CollisionGeometry ==
  [cost_density |-> 1, threshold_occupied |-> 1, threshold_free |-> 0]

\* the objects that share the geometry g
Sharers(g) == {o \in Objects : cgeom(o) = g}

\* CollisionObject(cgeom_, tf) for every object, on geometries as constructed:
\* the pose is stored, computeLocalAABB() called and the bound computed
ConstructedWith(scene) ==
  /\ t = scene
  /\ aabb = [o \in Objects |-> ComputedAABB(cgeom(o), scene[o])]
  /\ built = Objects
  /\ nlocal = [g \in Geoms |-> Cardinality(Sharers(g))]
  /\ cg = [g \in Geoms |-> CollisionGeometry]

\* CollisionObject(cgeom_): every object at the default (identity) pose
IdentityScene == [o \in Objects |-> Transform3f("I", Vec(0, 0, 0))]

\* CollisionObject::getAABB
getAABB(o) == aabb[o]

----------------------------------------------------------------------------
(* NaiveCollisionManager: the registry *)

size(m) == Len(objs[m])

empty(m) == objs[m] = <<>>

\* a remove that erases the first element equal to x only
RECURSIVE ListRemoveFirst(_, _)
ListRemoveFirst(s, x) ==
  IF s = <<>> THEN <<>>
  ELSE IF Head(s) = x THEN Tail(s)
       ELSE <<Head(s)>> \o ListRemoveFirst(Tail(s), x)

\* std::list::remove: walk the list and erase each element equal to x
RECURSIVE ListRemove(_, _)
ListRemove(s, x) ==
  IF s = <<>> THEN <<>>
  ELSE IF Head(s) = x THEN ListRemove(Tail(s), x)
       ELSE <<Head(s)>> \o ListRemove(Tail(s), x)

\* number of entries of s that refer to x
Count(s, x) == Cardinality({i \in 1..Len(s) : s[i] = x})

\* the bag of the entries of s
RECURSIVE BagOfSeq(_)
BagOfSeq(s) ==
  IF s = <<>> THEN EmptyBag ELSE SetToBag({Head(s)}) (+) BagOfSeq(Tail(s))

\* a bag of n copies of x
Copies(x, n) == IF n = 0 THEN EmptyBag ELSE [e \in {x} |-> n]

Cap(m) == IF m = "m1" THEN MaxLen ELSE MaxOther

NoQuery == [form |-> "none", kind |-> "none", loop |-> "none", obj |-> "none",
            other |-> "none", cb |-> "none"]

QueryIdle ==
  /\ pc = "idle"
  /\ query = NoQuery
  /\ it1 = 0 /\ it2 = 0
  /\ min_dist = 0
  /\ arg = 0
  /\ calls = <<>>
  /\ examined = <<>>
  /\ stopped = FALSE

\* a registerObject that ignores an object the list already holds
registerObjectOnce(m, obj) ==
  /\ pc = "idle"
  /\ BagCardinality(registered[m]) < Cap(m)
  /\ objs' = [objs EXCEPT ![m] = IF obj \in Range(@) THEN @ ELSE Append(@, obj)]
  /\ registered' = [registered EXCEPT ![m] = @ (+) Copies(obj, 1)]
  /\ last' = [op |-> "registerObject", m |-> m, obj |-> obj, before |-> objs[m]]
  /\ UNCHANGED <<out, removed, objVars, qVars>>

registerObject(m, obj) ==
  /\ pc = "idle"
  /\ BagCardinality(registered[m]) < Cap(m)
  /\ objs' = [objs EXCEPT ![m] = Append(@, obj)]
  /\ registered' = [registered EXCEPT ![m] = @ (+) Copies(obj, 1)]
  /\ last' = [op |-> "registerObject", m |-> m, obj |-> obj, before |-> objs[m]]
  /\ UNCHANGED <<out, removed, objVars, qVars>>

registerObjects(m, other_objs) ==
  /\ pc = "idle"
  /\ BagCardinality(registered[m]) + Len(other_objs) <= Cap(m)
  /\ objs' = [objs EXCEPT ![m] = @ \o other_objs]
  /\ registered' = [registered EXCEPT ![m] = @ (+) BagOfSeq(other_objs)]
  /\ last' = [op |-> "registerObjects", m |-> m, obj |-> "none", before |-> objs[m]]
  /\ UNCHANGED <<out, removed, objVars, qVars>>

unregisterObject(m, obj) ==
  /\ pc = "idle"
  /\ objs' = [objs EXCEPT ![m] = ListRemove(@, obj)]
  /\ removed' = [removed EXCEPT ![m] = @ (+) Copies(obj, Count(objs[m], obj))]
  /\ last' = [op |-> "unregisterObject", m |-> m, obj |-> obj, before |-> objs[m]]
  /\ UNCHANGED <<out, registered, objVars, qVars>>

clear(m) ==
  /\ pc = "idle"
  /\ objs' = [objs EXCEPT ![m] = <<>>]
  /\ removed' = [removed EXCEPT ![m] = @ (+) BagOfSeq(objs[m])]
  /\ last' = [op |-> "clear", m |-> m, obj |-> "none", before |-> objs[m]]
  /\ UNCHANGED <<out, registered, objVars, qVars>>

NoOp == [op |-> "none", m |-> "none", obj |-> "none", before |-> <<>>]

InitReg ==
  /\ objs = [m \in Managers |-> <<>>]
  /\ registered = [m \in Managers |-> EmptyBag]
  /\ removed = [m \in Managers |-> EmptyBag]
  /\ last = NoOp
  /\ ConstructedWith(IdentityScene)
  /\ out = <<>>
  /\ QueryIdle

NextReg ==
  \/ \E m \in Managers, obj \in Objects : registerObject(m, obj)
  \/ \E m \in Managers, v \in SeqsUpTo(Objects, MaxVec) : registerObjects(m, v)
  \/ \E m \in Managers, obj \in Objects : unregisterObject(m, obj)
  \/ \E m \in Managers : clear(m)

SpecReg == InitReg /\ [][NextReg]_vars

----------------------------------------------------------------------------
(* NaiveCollisionManager: the queries *)

\* std::numeric_limits<S>::max(), the seed of min_dist (a stand-in larger
\* than every distance of the model)
RealMax == 1000

\* the manager the queries are called on; the other manager of a cross query
\* is any manager, this one included
This == "m1"

\* the callbacks handed to a query, by what they do with the min_dist
\* reference: keep (never assign it), tighten (assign the bound distance of
\* the offered pair), any (assign whatever they like)
Callbacks == {"keep", "tighten", "any"}

\* the list the inner cursor it2 walks
\* an inner loop that always walks this manager's own list
InnerListOwn == objs[This]

\* the list the inner loop walks
InnerList == IF query.loop = "cross" THEN objs[query.other] ELSE objs[This]

\* first argument of the callback at the cursor
First == IF query.loop = "single" THEN query.obj ELSE objs[This][it1]

\* second argument of the callback at the cursor
Second == InnerList[it2]

\* a guard that lets every pair of a collide query through
CandidateUnpruned ==
  IF query.kind = "distance"
  THEN Distance(getAABB(First), getAABB(Second)) < min_dist
  ELSE TRUE

\* a guard that also lets through a pair at exactly the running minimum
CandidateLeq ==
  IF query.kind = "distance"
  THEN Distance(getAABB(First), getAABB(Second)) <= min_dist
  ELSE IF query.loop = "single"
       THEN TRUE
       ELSE Overlap(getAABB(First), getAABB(Second))

\* the guard in front of the callback invocation, per query form
Candidate ==
  IF query.kind = "distance"
  THEN Distance(getAABB(First), getAABB(Second)) < min_dist
  ELSE IF query.loop = "single"
       THEN TRUE
       ELSE Overlap(getAABB(First), getAABB(Second))

StartLoop(form, kind, loop, obj, other, cb, first2) ==
  /\ query' = [form |-> form, kind |-> kind, loop |-> loop, obj |-> obj,
               other |-> other, cb |-> cb]
  /\ pc' = "loop"
  /\ it1' = 1
  /\ it2' = first2
  /\ min_dist' = IF kind = "distance" THEN RealMax ELSE 0
  /\ arg' = 0
  /\ calls' = <<>>
  /\ examined' = <<>>
  /\ stopped' = FALSE

\* a query without the size() == 0 guards: the loops are entered all the same
EnterLoopAnyway(form, kind, obj, other, cb) ==
  IF obj # "none"
  THEN StartLoop(form, kind, "single", obj, other, cb, 1)
  ELSE IF other \in {"none", This}
       THEN StartLoop(form, kind, "self", obj, other, cb, 2)
       ELSE StartLoop(form, kind, "cross", obj, other, cb, 1)

\* if(size() == 0) return;  the query is over before any loop is entered
ReturnAtOnce(form, kind, obj, other, cb) ==
  /\ query' = [form |-> form, kind |-> kind, loop |-> "none", obj |-> obj,
               other |-> other, cb |-> cb]
  /\ pc' = "done"
  /\ UNCHANGED <<out, it1, it2, min_dist, arg, calls, examined, stopped>>

\* collide(obj, cdata, callback)
collideObj(obj) ==
  /\ pc = "idle"
  /\ IF size(This) = 0
     THEN ReturnAtOnce("collideObj", "collide", obj, "none", "keep")
     ELSE StartLoop("collideObj", "collide", "single", obj, "none", "keep", 1)
  /\ UNCHANGED <<out, regVars, last, objVars>>

\* distance(obj, cdata, callback)
distanceObj(obj, cb) ==
  /\ pc = "idle"
  /\ IF size(This) = 0
     THEN ReturnAtOnce("distanceObj", "distance", obj, "none", cb)
     ELSE StartLoop("distanceObj", "distance", "single", obj, "none", cb, 1)
  /\ UNCHANGED <<out, regVars, last, objVars>>

\* a self collide whose first inner loop starts at the entry of the outer
\* cursor itself
collideSelfFromHead ==
  /\ pc = "idle"
  /\ IF size(This) = 0
     THEN ReturnAtOnce("collideSelf", "collide", "none", "none", "keep")
     ELSE StartLoop("collideSelf", "collide", "self", "none", "none", "keep", 1)
  /\ UNCHANGED <<out, regVars, last, objVars>>

\* collide(cdata, callback)
collideSelf ==
  /\ pc = "idle"
  /\ IF size(This) = 0
     THEN ReturnAtOnce("collideSelf", "collide", "none", "none", "keep")
     ELSE StartLoop("collideSelf", "collide", "self", "none", "none", "keep", 2)
  /\ UNCHANGED <<out, regVars, last, objVars>>

\* distance(cdata, callback)
distanceSelf(cb) ==
  /\ pc = "idle"
  /\ IF size(This) = 0
     THEN ReturnAtOnce("distanceSelf", "distance", "none", "none", cb)
     ELSE StartLoop("distanceSelf", "distance", "self", "none", "none", cb, 2)
  /\ UNCHANGED <<out, regVars, last, objVars>>

\* a cross collide without the test for the manager itself
collideOtherAlwaysCross(other) ==
  /\ pc = "idle"
  /\ IF (size(This) = 0) \/ (size(other) = 0)
     THEN ReturnAtOnce("collideOther", "collide", "none", other, "keep")
     ELSE StartLoop("collideOther", "collide", "cross", "none", other, "keep", 1)
  /\ UNCHANGED <<out, regVars, last, objVars>>

\* collide(other_manager, cdata, callback)
collideOther(other) ==
  /\ pc = "idle"
  /\ IF (size(This) = 0) \/ (size(other) = 0)
     THEN ReturnAtOnce("collideOther", "collide", "none", other, "keep")
     ELSE IF This = other
          THEN StartLoop("collideOther", "collide", "self", "none", other, "keep", 2)
          ELSE StartLoop("collideOther", "collide", "cross", "none", other, "keep", 1)
  /\ UNCHANGED <<out, regVars, last, objVars>>

\* distance(other_manager, cdata, callback)
distanceOther(other, cb) ==
  /\ pc = "idle"
  /\ IF (size(This) = 0) \/ (size(other) = 0)
     THEN ReturnAtOnce("distanceOther", "distance", "none", other, cb)
     ELSE IF This = other
          THEN StartLoop("distanceOther", "distance", "self", "none", other, cb, 2)
          ELSE StartLoop("distanceOther", "distance", "cross", "none", other, cb, 1)
  /\ UNCHANGED <<out, regVars, last, objVars>>

\* number of turns of the outer loop: the single-object forms have one loop
OuterLen == IF query.loop = "single" THEN 1 ELSE Len(objs[This])

\* a loop body in which the manager itself lowers min_dist to the bound
\* distance of a candidate
TestTightening ==
  /\ pc = "loop"
  /\ it1 <= OuterLen
  /\ it2 <= Len(InnerList)
  /\ examined' = Append(examined, <<it1, it2>>)
  /\ IF Candidate
     THEN /\ pc' = "call" /\ it2' = it2
          /\ min_dist' = IF query.kind = "distance"
                          THEN Distance(getAABB(First), getAABB(Second))
                          ELSE min_dist
          /\ arg' = min_dist'
     ELSE pc' = "loop" /\ it2' = it2 + 1 /\ min_dist' = min_dist /\ arg' = arg
  /\ UNCHANGED <<out, regVars, last, objVars, query, it1, calls, stopped>>

\* a loop body that hands the candidate's bound distance to the callback
\* in place of min_dist
TestPassingBound ==
  /\ pc = "loop"
  /\ it1 <= OuterLen
  /\ it2 <= Len(InnerList)
  /\ examined' = Append(examined, <<it1, it2>>)
  /\ IF Candidate
     THEN /\ pc' = "call" /\ it2' = it2
          /\ arg' = IF query.kind = "distance"
                     THEN Distance(getAABB(First), getAABB(Second))
                     ELSE 0
     ELSE pc' = "loop" /\ it2' = it2 + 1 /\ arg' = arg
  /\ UNCHANGED <<out, regVars, last, objVars, query, it1, min_dist, calls, stopped>>

\* the loop body up to the callback: the guard is evaluated on the pair at
\* the cursors; a candidate goes to the callback, which gets min_dist by
\* reference in the distance forms; any other pair is passed
Test ==
  /\ pc = "loop"
  /\ it1 <= OuterLen
  /\ it2 <= Len(InnerList)
  /\ examined' = Append(examined, <<it1, it2>>)
  /\ IF Candidate
     THEN /\ pc' = "call" /\ it2' = it2
          /\ arg' = IF query.kind = "distance" THEN min_dist ELSE 0
     ELSE pc' = "loop" /\ it2' = it2 + 1 /\ arg' = arg
  /\ UNCHANGED <<out, regVars, last, objVars, query, it1, min_dist, calls, stopped>>

\* the values a callback may leave in min_dist
Assigned(cb, a, b) ==
  IF cb = "keep" THEN {min_dist}
  ELSE IF cb = "tighten" THEN {Distance(getAABB(a), getAABB(b))}
  ELSE {min_dist, Distance(getAABB(a), getAABB(b)), RealMax}

\* an invocation that gets min_dist by value: what the callback assigns is
\* lost
InvokeByValue(ret, d) ==
  /\ calls' = Append(calls, [a |-> First, b |-> Second, i |-> it1, j |-> it2,
                             ret |-> ret])
  /\ min_dist' = min_dist
  /\ IF ret
     THEN pc' = "done" /\ stopped' = TRUE /\ it2' = it2
     ELSE pc' = "loop" /\ stopped' = stopped /\ it2' = it2 + 1
  /\ arg' = 0
  /\ UNCHANGED <<out, regVars, last, objVars, query, it1, examined>>

\* an invocation whose true result leaves the inner loop only (a break where
\* the code returns)
InvokeBreak(ret, d) ==
  /\ calls' = Append(calls, [a |-> First, b |-> Second, i |-> it1, j |-> it2,
                             ret |-> ret])
  /\ min_dist' = IF query.kind = "distance" THEN d ELSE min_dist
  /\ pc' = "loop"
  /\ stopped' = (stopped \/ ret)
  /\ it2' = IF ret THEN Len(InnerList) + 1 ELSE it2 + 1
  /\ arg' = 0
  /\ UNCHANGED <<out, regVars, last, objVars, query, it1, examined>>

\* callback(a, b, cdata[, min_dist]) returning ret and leaving d in min_dist,
\* and the test of its result
Invoke(ret, d) ==
  /\ calls' = Append(calls, [a |-> First, b |-> Second, i |-> it1, j |-> it2,
                             ret |-> ret])
  /\ min_dist' = IF query.kind = "distance" THEN d ELSE min_dist
  /\ IF ret
     THEN pc' = "done" /\ stopped' = TRUE /\ it2' = it2
     ELSE pc' = "loop" /\ stopped' = stopped /\ it2' = it2 + 1
  /\ arg' = 0
  /\ UNCHANGED <<out, regVars, last, objVars, query, it1, examined>>

Callback ==
  /\ pc = "call"
  /\ \E ret \in BOOLEAN, d \in Assigned(query.cb, First, Second) : Invoke(ret, d)

\* an outer step that seeds min_dist anew for every turn of the outer loop
InnerEndReseeding ==
  /\ pc = "loop"
  /\ it1 <= OuterLen
  /\ it2 > Len(InnerList)
  /\ it1' = it1 + 1
  /\ it2' = IF query.loop = "self" THEN it1 + 2 ELSE 1
  /\ min_dist' = IF query.kind = "distance" THEN RealMax ELSE min_dist
  /\ UNCHANGED <<out, regVars, last, objVars, pc, query, arg, calls, examined, stopped>>

\* an outer step that restarts the inner cursor at the head of the list in
\* the self forms too
InnerEndRestart ==
  /\ pc = "loop"
  /\ it1 <= OuterLen
  /\ it2 > Len(InnerList)
  /\ it1' = it1 + 1
  /\ it2' = 1
  /\ UNCHANGED <<out, regVars, last, objVars, pc, query, min_dist, arg, calls, examined, stopped>>

\* the inner loop ran off its list: the outer cursor moves on
InnerEnd ==
  /\ pc = "loop"
  /\ it1 <= OuterLen
  /\ it2 > Len(InnerList)
  /\ it1' = it1 + 1
  /\ it2' = IF query.loop = "self" THEN it1 + 2 ELSE 1
  /\ UNCHANGED <<out, regVars, last, objVars, pc, query, min_dist, arg, calls, examined, stopped>>

\* the outer loop ran off the list: the query returns
OuterEnd ==
  /\ pc = "loop"
  /\ it1 > OuterLen
  /\ pc' = "done"
  /\ UNCHANGED <<out, regVars, last, objVars, query, it1, it2, min_dist, arg, calls, examined, stopped>>

\* back in the caller, the next query can be made
Return ==
  /\ pc = "done"
  /\ pc' = "idle"
  /\ query' = NoQuery
  /\ it1' = 0 /\ it2' = 0
  /\ min_dist' = 0
  /\ arg' = 0
  /\ calls' = <<>>
  /\ examined' = <<>>
  /\ stopped' = FALSE
  /\ UNCHANGED <<out, regVars, last, objVars>>

\* the scenes the queries run on: the pose each object was constructed with
Scenes ==
  { [o1 |-> Transform3f("I", Vec(0, 0, 0)), o2 |-> Transform3f("I", Vec(5, 0, 0)),
     o3 |-> Transform3f("Z90", Vec(5, 0, 0))],
    [o1 |-> Transform3f("Z90", Vec(0, 0, 0)), o2 |-> Transform3f("Z90", Vec(3, 0, 0)),
     o3 |-> Transform3f("Z90", Vec(10, 0, 0))] }

Init ==
  /\ objs \in [Managers -> SeqsUpTo(Objects, MaxLen)]
  /\ \A m \in Managers : Len(objs[m]) <= Cap(m)
  /\ registered = [m \in Managers |-> BagOfSeq(objs[m])]
  /\ removed = [m \in Managers |-> EmptyBag]
  /\ last = NoOp
  /\ \E scene \in Scenes : ConstructedWith(scene)
  /\ out = <<>>
  /\ QueryIdle

Next ==
  \/ \E obj \in Objects : collideObj(obj)
  \/ \E obj \in Objects, cb \in Callbacks : distanceObj(obj, cb)
  \/ collideSelf
  \/ \E cb \in Callbacks : distanceSelf(cb)
  \/ \E other \in Managers : collideOther(other)
  \/ \E other \in Managers, cb \in Callbacks : distanceOther(other, cb)
  \/ Test
  \/ Callback
  \/ InnerEnd
  \/ OuterEnd
  \/ Return

Spec == Init /\ [][Next]_vars

----------------------------------------------------------------------------
(* Claims about the registry, checked under SpecReg *)

\* C1: after any sequence of registerObject, registerObjects, unregisterObject
\* and clear calls, size() is the number of entries registered so far minus
\* the number removed so far, the list holds exactly the remaining entries
\* (duplicates counted once per registration), and empty() is size() = 0.
C1_SizeIsNetRegistrations ==
  \A m \in Managers :
    /\ size(m) = BagCardinality(registered[m]) - BagCardinality(removed[m])
    /\ BagOfSeq(objs[m]) = registered[m] (-) removed[m]
    /\ empty(m) <=> (size(m) = 0)

C1_Witness ==
  /\ last.op = "registerObject"
  /\ Count(objs[last.m], last.obj) = 2
  /\ BagCardinality(removed[last.m]) >= 1
  /\ ~empty(last.m)

\* C2: after unregisterObject(x), x occurs zero times however often it was
\* registered, every other entry is kept with its multiplicity and relative
\* order, and for an x that is not registered the list is unchanged.
C2_UnregisterRemovesAll ==
  (last.op = "unregisterObject") =>
    LET now == objs[last.m]
        x == last.obj
    IN  /\ Count(now, x) = 0
        /\ \A y \in Objects \ {x} : Count(now, y) = Count(last.before, y)
        /\ now = SelectSeq(last.before, LAMBDA e : e # x)
        /\ (Count(last.before, x) = 0) => (now = last.before)

C2_Witness ==
  /\ last.op = "unregisterObject"
  /\ Count(last.before, last.obj) >= 2
  /\ Len(objs[last.m]) >= 1

----------------------------------------------------------------------------
(* Claims about the queries, checked under Spec *)

\* the cursor pairs of the callback invocations made so far
Offered == {<<calls[k].i, calls[k].j>> : k \in 1..Len(calls)}

\* the strict upper triangle of the n x n pair matrix
UpperTriangle(n) == {p \in (1..n) \X (1..n) : p[1] < p[2]}

BoundsOverlap(a, b) == Overlap(getAABB(a), getAABB(b))

BoundDistance(a, b) == Distance(getAABB(a), getAABB(b))

\* C3: in a self-collide query whose callback never returns true each
\* unordered pair of entries is examined exactly once (never in both orders,
\* never an entry with itself), the callback is invoked exactly once for each
\* such pair whose bounds overlap, and the set of unordered pairs offered is
\* the set of all pairs of distinct entries with overlapping bounds, which
\* does not depend on the order of registration.
C3_SelfCollideVisitsEachPairOnce ==
  (pc = "done" /\ query.form = "collideSelf" /\ ~stopped) =>
    LET s == objs[This]
        n == Len(s)
        overlapping == {p \in UpperTriangle(n) : BoundsOverlap(s[p[1]], s[p[2]])}
    IN  /\ Range(examined) = UpperTriangle(n)
        /\ Len(examined) = Cardinality(UpperTriangle(n))
        /\ Offered = overlapping
        /\ Len(calls) = Cardinality(overlapping)
        /\ \A k \in 1..Len(calls) :
             calls[k].a = s[calls[k].i] /\ calls[k].b = s[calls[k].j]
        /\ {{calls[k].a, calls[k].b} : k \in 1..Len(calls)}
             = {{s[q[1]], s[q[2]]} :
                  q \in {r \in (1..n) \X (1..n) :
                           r[1] # r[2] /\ BoundsOverlap(s[r[1]], s[r[2]])}}

C3_Witness ==
  /\ pc = "done" /\ query.form = "collideSelf" /\ ~stopped
  /\ Len(objs[This]) = 3
  /\ Len(calls) \in 1..2

\* C4: in every query form, once a callback invocation returns true the query
\* has ended and no further invocation happens: at most one invocation of a
\* query returns true and it is the last one.
C4_StopEndsTheQuery ==
  /\ \A k \in 1..Len(calls) : calls[k].ret => (k = Len(calls) /\ pc = "done")
  /\ stopped <=> (calls # <<>> /\ calls[Len(calls)].ret)

C4_Witness ==
  /\ pc = "done" /\ stopped
  /\ query.form = "collideSelf"
  /\ Len(objs[This]) = 3
  /\ Len(calls) = 1 /\ it1 = 1 /\ it2 = 2
  /\ BoundsOverlap(objs[This][1], objs[This][3])

\* the least bound distance over the unordered pairs of entries of s
MinPairDistance(s) ==
  LET ds == {BoundDistance(s[p[1]], s[p[2]]) : p \in UpperTriangle(Len(s))}
  IN  CHOOSE d \in ds : \A e \in ds : d <= e

SelfDistanceKeptToTheEnd ==
  /\ pc = "done" /\ query.form = "distanceSelf" /\ ~stopped
  /\ query.cb = "keep"
  /\ size(This) >= 2

\* C5 as stated: at the end of a self-distance query on two or more entries
\* whose callback never returns true and never changes the running minimum,
\* the running minimum is the least bound distance over all unordered pairs.
C5_AsStated ==
  SelfDistanceKeptToTheEnd => (min_dist = MinPairDistance(objs[This]))

\* C5 (amended): at the end of such a query the running minimum is still the
\* maximum representable value it was seeded with, and the callback has been
\* invoked once for every unordered pair of entries.
C5_KeptMinimumStaysAtSeed ==
  SelfDistanceKeptToTheEnd =>
    /\ min_dist = RealMax
    /\ Offered = UpperTriangle(size(This))
    /\ Len(calls) = Cardinality(UpperTriangle(size(This)))

C5_Witness ==
  /\ SelfDistanceKeptToTheEnd
  /\ size(This) = 3
  /\ MinPairDistance(objs[This]) > 0

\* the scenario of C6: two unit spheres, identity rotation, at (0,0,0) and
\* (5,0,0), each registered once
TwoSpheresFiveApart ==
  /\ objs[This] \in {<<"o1", "o2">>, <<"o2", "o1">>}
  /\ cgeom("o1") = "g1" /\ cgeom("o2") = "g1"
  /\ t["o1"] = Transform3f("I", Vec(0, 0, 0))
  /\ t["o2"] = Transform3f("I", Vec(5, 0, 0))

\* C6: two unit spheres with identity rotation at (0,0,0) and (5,0,0), each
\* registered once: self-collide invokes the callback zero times.
C6_FarSpheresNotOffered ==
  (TwoSpheresFiveApart /\ query.form = "collideSelf") => (calls = <<>>)

\* C9 as stated: in every collide form each pair passed to the callback has
\* overlapping cached bounds.
C9_AsStated ==
  (query.kind = "collide") =>
    \A k \in 1..Len(calls) : BoundsOverlap(calls[k].a, calls[k].b)

\* C9 (amended): in the self and cross-manager collide forms each pair passed
\* to the callback has overlapping cached bounds; the single-object form makes
\* no bound test and offers every entry it reaches, whatever its bound.
C9_SelfAndCrossOfferOverlappingPairs ==
  /\ (query.kind = "collide" /\ query.loop # "single") =>
       \A k \in 1..Len(calls) : BoundsOverlap(calls[k].a, calls[k].b)
  /\ (query.form = "collideObj") =>
       /\ (pc # "call") => (Offered = Range(examined))
       /\ (pc = "done" /\ ~stopped) => (Len(calls) = size(This))

C9_Witness ==
  /\ pc = "done" /\ query.form = "collideOther" /\ query.loop = "cross"
  /\ ~stopped
  /\ Len(calls) >= 1
  /\ Len(examined) > Len(calls)

\* C10: in every distance form the running minimum starts at the maximum
\* representable value, the callback is invoked for a pair only if the pair's
\* bound distance is strictly less than the running minimum as it stands when
\* the pair is reached, and a pair whose bound distance is greater than or
\* equal to it is skipped.
C10_DistancePrunesAgainstRunningMinimum ==
  /\ []((query.kind = "distance" /\ query.loop # "none") =>
          /\ (calls = <<>>) => (min_dist = RealMax)
          /\ (pc = "call") => (BoundDistance(First, Second) < min_dist))
  /\ [][(pc = "loop" /\ query.kind = "distance"
          /\ Len(examined') = Len(examined) + 1)
        => IF BoundDistance(First, Second) < min_dist
           THEN pc' = "call"
           ELSE pc' = "loop" /\ it2' = it2 + 1 /\ calls' = calls]_vars

C10_Witness ==
  /\ pc = "done" /\ query.form = "distanceOther" /\ query.loop = "cross"
  /\ ~stopped
  /\ min_dist < RealMax
  /\ Len(calls) >= 1
  /\ Len(examined) > Len(calls)

----------------------------------------------------------------------------
(* CollisionObject: the pose setters and computeAABB, specification SpecObj *)

ObjOp(op, o) == [op |-> op, m |-> "none", obj |-> o, before |-> aabb[o]]

\* setRotation(R)
setRotation(o, R) ==
  /\ t' = [t EXCEPT ![o].q = R]
  /\ last' = ObjOp("setRotation", o)
  /\ UNCHANGED <<out, regVars, aabb, geomVars, qVars>>

\* a setTranslation that refreshes the cached bound
setTranslationRefreshing(o, T) ==
  /\ t' = [t EXCEPT ![o].T = T]
  /\ aabb' = [aabb EXCEPT ![o] = ComputedAABB(cgeom(o), t'[o])]
  /\ last' = ObjOp("setTranslation", o)
  /\ UNCHANGED <<out, regVars, geomVars, qVars>>

\* setTranslation(T)
setTranslation(o, T) ==
  /\ t' = [t EXCEPT ![o].T = T]
  /\ last' = ObjOp("setTranslation", o)
  /\ UNCHANGED <<out, regVars, aabb, geomVars, qVars>>

\* setQuatRotation(q)
setQuatRotation(o, q) ==
  /\ t' = [t EXCEPT ![o].q = q]
  /\ last' = ObjOp("setQuatRotation", o)
  /\ UNCHANGED <<out, regVars, aabb, geomVars, qVars>>

\* setTransform(R, T)
setTransformRT(o, R, T) ==
  /\ t' = [t EXCEPT ![o] = Transform3f(R, T)]
  /\ last' = ObjOp("setTransformRT", o)
  /\ UNCHANGED <<out, regVars, aabb, geomVars, qVars>>

\* setTransform(q, T)
setTransformQT(o, q, T) ==
  /\ t' = [t EXCEPT ![o] = Transform3f(q, T)]
  /\ last' = ObjOp("setTransformQT", o)
  /\ UNCHANGED <<out, regVars, aabb, geomVars, qVars>>

\* setTransform(tf)
setTransform(o, tf) ==
  /\ t' = [t EXCEPT ![o] = tf]
  /\ last' = ObjOp("setTransform", o)
  /\ UNCHANGED <<out, regVars, aabb, geomVars, qVars>>

\* setIdentityTransform()
setIdentityTransform(o) ==
  /\ t' = [t EXCEPT ![o] = Transform3f("I", Vec(0, 0, 0))]
  /\ last' = ObjOp("setIdentityTransform", o)
  /\ UNCHANGED <<out, regVars, aabb, geomVars, qVars>>

\* computeAABB()
computeAABB(o) ==
  /\ aabb' = [aabb EXCEPT ![o] = ComputedAABB(cgeom(o), t[o])]
  /\ last' = ObjOp("computeAABB", o)
  /\ UNCHANGED <<out, regVars, t, geomVars, qVars>>

InitObj ==
  /\ objs = [m \in Managers |-> <<>>]
  /\ registered = [m \in Managers |-> EmptyBag]
  /\ removed = [m \in Managers |-> EmptyBag]
  /\ last = NoOp
  /\ ConstructedWith(IdentityScene)
  /\ out = <<>>
  /\ QueryIdle

NextObj ==
  \/ \E o \in Objects, R \in Rotations : setRotation(o, R)
  \/ \E o \in Objects, T \in Translations : setTranslation(o, T)
  \/ \E o \in Objects, q \in Rotations : setQuatRotation(o, q)
  \/ \E o \in Objects, R \in Rotations, T \in Translations : setTransformRT(o, R, T)
  \/ \E o \in Objects, q \in Rotations, T \in Translations : setTransformQT(o, q, T)
  \/ \E o \in Objects, tf \in Poses : setTransform(o, tf)
  \/ \E o \in Objects : setIdentityTransform(o)
  \/ \E o \in Objects : computeAABB(o)

SpecObj == InitObj /\ [][NextObj]_vars

\* the box b contains the sphere of centre c and radius r
ContainsSphere(b, c, r) ==
  \A k \in Axes : b.min_[k] <= c[k] - r /\ b.max_[k] >= c[k] + r

\* C7: for every pose that is not the identity (a non-zero translation with
\* identity rotation included) the world bound computeAABB() produces contains
\* the geometry's bounding sphere transformed by that pose.
C7_BoundContainsTransformedSphere ==
  (last.op = "computeAABB" /\ ~IsIdentityTransform(t[last.obj])) =>
    ContainsSphere(getAABB(last.obj),
                   Transform(t[last.obj], aabb_center(cgeom(last.obj))),
                   aabb_radius(cgeom(last.obj)))

----------------------------------------------------------------------------
(* Further claims about the queries, checked under Spec *)

\* C11 as stated: in a single-object distance query the value passed to the
\* callback as its running-minimum argument is the candidate's bound distance
\* to the query object.
C11_AsStated ==
  (pc = "call" /\ query.form = "distanceObj") =>
    (arg = BoundDistance(First, Second))

\* C11 (amended): in a single-object distance query the value passed to the
\* callback is the running minimum as it stands (the maximum representable
\* value until a callback assigns it), which is strictly greater than the
\* candidate's bound distance to the query object.
C11_CallbackGetsRunningMinimum ==
  (pc = "call" /\ query.form = "distanceObj") =>
    /\ arg = min_dist
    /\ arg > BoundDistance(First, Second)
    /\ (calls = <<>>) => (arg = RealMax)

C11_Witness ==
  /\ pc = "call" /\ query.form = "distanceObj"
  /\ Len(calls) = 1
  /\ arg < RealMax
  /\ arg > BoundDistance(First, Second)

\* position of the pair (i, j), i < j, in the row-major walk of the strict
\* upper triangle of n entries
SelfRank(n, i, j) == ((i - 1) * n) - ((i * (i - 1)) \div 2) + (j - i)

\* the pairs of a self query in the order the two nested loops reach them
SelfOrder(n) ==
  [k \in 1..((n * (n - 1)) \div 2) |->
     CHOOSE p \in UpperTriangle(n) : SelfRank(n, p[1], p[2]) = k]

\* the course of a self query: pairs are reached in SelfOrder, every
\* invocation gets the earlier entry first and the later entry second, the
\* invocations follow the order of the pairs, a collide invocation is made for
\* exactly the reached pairs with overlapping bounds, a true return ends the
\* query at that pair and without one every pair is reached
SelfRun ==
  LET s == objs[This]
      n == Len(s)
  IN  /\ Len(examined) <= Len(SelfOrder(n))
      /\ examined = SubSeq(SelfOrder(n), 1, Len(examined))
      /\ \A k \in 1..Len(calls) :
           /\ calls[k].i < calls[k].j
           /\ calls[k].a = s[calls[k].i] /\ calls[k].b = s[calls[k].j]
           /\ <<calls[k].i, calls[k].j>> \in Range(examined)
           /\ \A l \in 1..(k - 1) :
                SelfRank(n, calls[l].i, calls[l].j)
                  < SelfRank(n, calls[k].i, calls[k].j)
      /\ (query.kind = "collide" /\ pc # "call") =>
           (Offered = {p \in Range(examined) : BoundsOverlap(s[p[1]], s[p[2]])})
      /\ stopped =>
           (examined[Len(examined)] = <<calls[Len(calls)].i, calls[Len(calls)].j>>)
      /\ (pc = "done" /\ ~stopped) => (examined = SelfOrder(n))

\* C12: a collide or distance query given the manager itself as the other
\* manager runs as the self query does: the same pairs in the same order with
\* the same argument order and stopping point, no pair in both orders and no
\* entry paired with itself; the self forms run the same course.
C12_CrossWithSelfIsSelfQuery ==
  /\ (query.form \in {"collideOther", "distanceOther"} /\ query.other = This
        /\ query.loop # "none") => (query.loop = "self" /\ SelfRun)
  /\ (query.form \in {"collideSelf", "distanceSelf"} /\ query.loop # "none")
        => (query.loop = "self" /\ SelfRun)

C12_Witness ==
  /\ pc = "done" /\ ~stopped
  /\ query.form = "collideOther" /\ query.other = This
  /\ Len(objs[This]) = 3
  /\ Len(examined) = 3
  /\ Len(calls) \in 1..2

----------------------------------------------------------------------------
(* Further claims about CollisionObject, checked under SpecObj *)

PoseSetters ==
  {"setRotation", "setTranslation", "setQuatRotation", "setTransformRT",
   "setTransformQT", "setTransform", "setIdentityTransform"}

\* C13: every pose setter changes the pose of its object only and leaves the
\* cached world bound unchanged: after a setter getAABB() returns what it
\* returned before, however stale, and a step changes a cached bound only if
\* it is computeAABB(), which changes the bound of its own object alone.
C13_SettersLeaveTheBoundAlone ==
  /\ [](last.op \in PoseSetters => getAABB(last.obj) = last.before)
  /\ [][ /\ (last'.op \in PoseSetters) =>
              /\ aabb' = aabb
              /\ \A o \in Objects \ {last'.obj} : t'[o] = t[o]
         /\ (aabb' # aabb) =>
              /\ last'.op = "computeAABB"
              /\ t' = t
              /\ aabb' = [aabb EXCEPT ![last'.obj] =
                            ComputedAABB(cgeom(last'.obj), t[last'.obj])] ]_vars

C13_Witness ==
  /\ last.op = "setTranslation"
  /\ getAABB(last.obj) = last.before
  /\ getAABB(last.obj) # ComputedAABB(cgeom(last.obj), t[last.obj])

----------------------------------------------------------------------------
(* CollisionObject: the three constructors, specification SpecNew *)

\* the pose and bound fields of an object that is not constructed yet
UnbuiltPose == Transform3f("I", Vec(0, 0, 0))
UnbuiltBound == AABB(Vec(0, 0, 0), Vec(0, 0, 0))

\* a constructor body that calls computeLocalAABB() only on a geometry whose
\* local bound was not computed before
ConstructLocalOnce(o, tf, op) ==
  LET g == cgeom(o)
      n == IF nlocal[g] = 0 THEN 1 ELSE nlocal[g]
  IN  /\ o \notin built
      /\ built' = built \cup {o}
      /\ t' = [t EXCEPT ![o] = tf]
      /\ nlocal' = [nlocal EXCEPT ![g] = n]
      /\ aabb' = [aabb EXCEPT ![o] =
                    IF n > 0 THEN ComputedAABB(g, tf) ELSE UnbuiltBound]
      /\ last' = ObjOp(op, o)
      /\ UNCHANGED <<out, regVars, cg, qVars>>

\* the body shared by the three constructors: the members are initialised,
\* then cgeom->computeLocalAABB() is called, then computeAABB(), which reads
\* the bound fields computeLocalAABB() has filled in
Construct(o, tf, op) ==
  LET g == cgeom(o)
      n == nlocal[g] + 1
  IN  /\ o \notin built
      /\ built' = built \cup {o}
      /\ t' = [t EXCEPT ![o] = tf]
      /\ nlocal' = [nlocal EXCEPT ![g] = n]
      /\ aabb' = [aabb EXCEPT ![o] =
                    IF n > 0 THEN ComputedAABB(g, tf) ELSE UnbuiltBound]
      /\ last' = ObjOp(op, o)
      /\ UNCHANGED <<out, regVars, cg, qVars>>

\* CollisionObject(cgeom_)
CollisionObject(o) == Construct(o, Transform3f("I", Vec(0, 0, 0)), "CollisionObject")

\* CollisionObject(cgeom_, tf)
CollisionObjectTf(o, tf) == Construct(o, tf, "CollisionObjectTf")

\* CollisionObject(cgeom_, R, T)
CollisionObjectRT(o, R, T) == Construct(o, Transform3f(R, T), "CollisionObjectRT")

InitNew ==
  /\ objs = [m \in Managers |-> <<>>]
  /\ registered = [m \in Managers |-> EmptyBag]
  /\ removed = [m \in Managers |-> EmptyBag]
  /\ out = <<>>
  /\ last = NoOp
  /\ t = [o \in Objects |-> UnbuiltPose]
  /\ aabb = [o \in Objects |-> UnbuiltBound]
  /\ built = {}
  /\ nlocal = [g \in Geoms |-> 0]
  /\ cg = [g \in Geoms |-> CollisionGeometry]
  /\ QueryIdle

NextNew ==
  \/ \E o \in Objects : CollisionObject(o)
  \/ \E o \in Objects, tf \in Poses : CollisionObjectTf(o, tf)
  \/ \E o \in Objects, R \in Rotations, T \in Translations : CollisionObjectRT(o, R, T)

SpecNew == InitNew /\ [][NextNew]_vars

\* every constructed object holds the world bound computed from its
\* geometry's local bound, so that one was computed first
LocalBoundComputedFirst ==
  \A o \in built :
    nlocal[cgeom(o)] >= 1 /\ getAABB(o) = ComputedAABB(cgeom(o), t[o])

\* C14 as stated: the local-bound computation of a geometry is invoked once
\* in total however many objects are constructed on it, and in every
\* construction before the world bound is computed.
C14_AsStated ==
  /\ \A g \in Geoms :
       nlocal[g] = IF Sharers(g) \cap built = {} THEN 0 ELSE 1
  /\ LocalBoundComputedFirst

\* C14 (amended): every construction of an object invokes its geometry's
\* local-bound computation, once and unconditionally, so a geometry shared by
\* k constructed objects has had it invoked k times; in every construction
\* the local bound is computed before the object's world bound.
C14_EveryConstructionComputesLocalBound ==
  /\ \A g \in Geoms : nlocal[g] = Cardinality(Sharers(g) \cap built)
  /\ LocalBoundComputedFirst

C14_Witness ==
  /\ {"o1", "o2"} \subseteq built
  /\ cgeom("o1") = cgeom("o2")
  /\ nlocal[cgeom("o1")] = 2

----------------------------------------------------------------------------
(* CollisionGeometry: cost density and occupancy, specification SpecGeom *)

Scalars == 0..MaxScalar

\* CollisionGeometry::isOccupied
Geometry_isOccupied(g) == cg[g].cost_density >= cg[g].threshold_occupied

\* a free test with a strict comparison
Geometry_isFreeStrict(g) == cg[g].cost_density < cg[g].threshold_free

\* CollisionGeometry::isFree
Geometry_isFree(g) == cg[g].cost_density <= cg[g].threshold_free

\* CollisionGeometry::isUncertain
Geometry_isUncertain(g) == ~Geometry_isOccupied(g) /\ ~Geometry_isFree(g)

\* CollisionObject::getCostDensity
getCostDensity(o) == cg[cgeom(o)].cost_density

\* CollisionObject::isOccupied
isOccupied(o) == Geometry_isOccupied(cgeom(o))

\* CollisionObject::isFree
isFree(o) == Geometry_isFree(cgeom(o))

\* CollisionObject::isUncertain
isUncertain(o) == Geometry_isUncertain(cgeom(o))

GeomOp(op, x, c) ==
  [op |-> op, m |-> "none", obj |-> x, before |-> [cg |-> cg, c |-> c]]

\* a setCostDensity that writes the cost density of every geometry
setCostDensityEverywhere(o, c) ==
  /\ cg' = [g \in Geoms |-> [cg[g] EXCEPT !.cost_density = c]]
  /\ last' = GeomOp("setCostDensity", o, c)
  /\ UNCHANGED <<out, regVars, t, aabb, built, nlocal, qVars>>

\* CollisionObject::setCostDensity(c)
setCostDensity(o, c) ==
  /\ cg' = [cg EXCEPT ![cgeom(o)].cost_density = c]
  /\ last' = GeomOp("setCostDensity", o, c)
  /\ UNCHANGED <<out, regVars, t, aabb, built, nlocal, qVars>>

\* an assignment to the public member threshold_occupied of a geometry
assignThresholdOccupied(g, v) ==
  /\ cg' = [cg EXCEPT ![g].threshold_occupied = v]
  /\ last' = GeomOp("threshold_occupied", g, v)
  /\ UNCHANGED <<out, regVars, t, aabb, built, nlocal, qVars>>

\* an assignment to the public member threshold_free of a geometry
assignThresholdFree(g, v) ==
  /\ cg' = [cg EXCEPT ![g].threshold_free = v]
  /\ last' = GeomOp("threshold_free", g, v)
  /\ UNCHANGED <<out, regVars, t, aabb, built, nlocal, qVars>>

InitGeom ==
  /\ objs = [m \in Managers |-> <<>>]
  /\ registered = [m \in Managers |-> EmptyBag]
  /\ removed = [m \in Managers |-> EmptyBag]
  /\ out = <<>>
  /\ last = NoOp
  /\ ConstructedWith(IdentityScene)
  /\ QueryIdle

NextGeom ==
  \/ \E o \in Objects, c \in Scalars : setCostDensity(o, c)
  \/ \E g \in Geoms, v \in Scalars : assignThresholdOccupied(g, v)
  \/ \E g \in Geoms, v \in Scalars : assignThresholdFree(g, v)

SpecGeom == InitGeom /\ [][NextGeom]_vars

\* C15: after setCostDensity(c) through an object, every object sharing its
\* geometry returns c from getCostDensity() and is occupied, free or
\* uncertain as c stands to the geometry's thresholds, which are unchanged;
\* the cost density and the occupancy of the objects built on another
\* geometry are what they were before the call.
C15_CostDensityIsSharedThroughTheGeometry ==
  (last.op = "setCostDensity") =>
    LET g  == cgeom(last.obj)
        c  == last.before.c
        b  == last.before.cg
    IN  /\ \A o \in Sharers(g) :
              /\ getCostDensity(o) = c
              /\ isOccupied(o) <=> (c >= b[g].threshold_occupied)
              /\ isFree(o) <=> (c <= b[g].threshold_free)
              /\ isUncertain(o) <=>
                   (c < b[g].threshold_occupied /\ c > b[g].threshold_free)
        /\ \A o \in Objects \ Sharers(g) :
              /\ getCostDensity(o) = b[cgeom(o)].cost_density
              /\ isOccupied(o) <=>
                   (b[cgeom(o)].cost_density >= b[cgeom(o)].threshold_occupied)
              /\ isFree(o) <=>
                   (b[cgeom(o)].cost_density <= b[cgeom(o)].threshold_free)
              /\ isUncertain(o) <=>
                   /\ b[cgeom(o)].cost_density < b[cgeom(o)].threshold_occupied
                   /\ b[cgeom(o)].cost_density > b[cgeom(o)].threshold_free

C15_Witness ==
  /\ last.op = "setCostDensity" /\ last.obj = "o1" /\ last.before.c = 0
  /\ last.before.cg["g1"].cost_density = 1
  /\ getCostDensity("o2") = 0 /\ isFree("o2") /\ ~isOccupied("o2")
  /\ getCostDensity("o3") = 1 /\ isOccupied("o3")

\* the number of the three occupancy predicates that hold of an object
Classes(o) ==
  Cardinality({k \in {"occupied", "free", "uncertain"} :
                 \/ (k = "occupied" /\ isOccupied(o))
                 \/ (k = "free" /\ isFree(o))
                 \/ (k = "uncertain" /\ isUncertain(o))})

\* C16: for all values of the three scalars an object is occupied exactly
\* when cost_density >= threshold_occupied, free exactly when cost_density <=
\* threshold_free and uncertain exactly when neither holds; at least one of
\* the three holds in every state and exactly one when threshold_free <
\* threshold_occupied.
C16_OccupancyClassification ==
  \A o \in Objects :
    LET g == cg[cgeom(o)]
    IN  /\ isOccupied(o) <=> (g.cost_density >= g.threshold_occupied)
        /\ isFree(o) <=> (g.cost_density <= g.threshold_free)
        /\ isUncertain(o) <=>
             (g.cost_density < g.threshold_occupied /\ g.cost_density > g.threshold_free)
        /\ Classes(o) >= 1
        /\ (g.threshold_free < g.threshold_occupied) => (Classes(o) = 1)

\* thresholds out of order on one geometry, whose objects are both occupied
\* and free, and an uncertain object on the other
C16_Witness ==
  /\ cg["g1"].threshold_free >= cg["g1"].threshold_occupied
  /\ isOccupied("o1") /\ isFree("o1") /\ ~isUncertain("o1")
  /\ Classes("o1") = 2
  /\ isUncertain("o3") /\ ~isOccupied("o3") /\ ~isFree("o3")

----------------------------------------------------------------------------
(* Claims about the guards and the cross loops, checked under Spec *)

QueryForms ==
  {"collideObj", "distanceObj", "collideSelf", "distanceSelf",
   "collideOther", "distanceOther"}

CrossForms == {"collideOther", "distanceOther"}

\* the registries of the running query of which one is empty
SomeRegistryEmpty ==
  \/ size(This) = 0
  \/ query.form \in CrossForms /\ size(query.other) = 0

\* C17: a query on an empty registry, in any of the six forms, and a cross
\* query of which either registry is empty, is over in its first step with no
\* callback invocation and no pair examined, and leaves the registries, the
\* objects and the caller's data as they were.
C17_EmptyRegistryReturnsAtOnce ==
  /\ []((pc # "idle" /\ SomeRegistryEmpty) =>
          /\ pc = "done" /\ query.loop = "none"
          /\ query.form \in QueryForms
          /\ calls = <<>> /\ examined = <<>> /\ ~stopped)
  /\ []((pc # "idle" /\ query.loop = "none") => SomeRegistryEmpty)
  /\ [][(pc = "idle" /\ pc' # "idle" /\ query'.loop = "none") =>
          /\ pc' = "done"
          /\ calls' = calls /\ examined' = examined
          /\ objs' = objs /\ out' = out /\ t' = t /\ aabb' = aabb /\ cg' = cg
          /\ min_dist' = min_dist /\ it1' = it1 /\ it2' = it2]_vars

C17_Witness ==
  /\ pc = "done" /\ query.form = "distanceOther"
  /\ size(This) = 0 /\ size(query.other) = 1
  /\ query.other # This
  /\ calls = <<>>

\* a self-distance query whose callback lowers the running minimum to the
\* bound distance of every pair it is offered and has not returned true
SelfDistanceTightening ==
  /\ query.form = "distanceSelf" /\ query.loop = "self"
  /\ query.cb = "tighten"
  /\ ~stopped

\* the pairs the query has finished with: the examined ones but for the pair
\* whose invocation is in progress
Settled ==
  IF pc = "call" THEN SubSeq(examined, 1, Len(examined) - 1) ELSE examined

\* the least bound distance among the first k settled pairs, RealMax for none
LeastSettled(k) ==
  LET s  == objs[This]
      ds == {BoundDistance(s[Settled[l][1]], s[Settled[l][2]]) : l \in 1..k}
              \cup {RealMax}
  IN  CHOOSE d \in ds : \A e \in ds : d <= e

\* the three objects of the second scene, registered in the order of their
\* places (0,0,0), (3,0,0), (10,0,0)
ThreeInARow ==
  /\ objs[This] = <<"o1", "o2", "o3">>
  /\ t["o1"].T = Vec(0, 0, 0) /\ t["o2"].T = Vec(3, 0, 0) /\ t["o3"].T = Vec(10, 0, 0)

\* C18: in a self-distance query whose callback never returns true and lowers
\* the running minimum to the bound distance of each pair it is offered, the
\* running minimum never increases, it is at every moment the least bound
\* distance of the pairs finished with (so at the end the least over all
\* unordered pairs), and a pair is offered exactly if its bound distance is
\* below all those of the pairs before it; the three objects at (0,0,0),
\* (3,0,0), (10,0,0) end with the bound distance of the first two, the pairs
\* with the third pruned.
C18_TightenedMinimumConverges ==
  /\ [](SelfDistanceTightening =>
          LET s == objs[This]
          IN  /\ min_dist = LeastSettled(Len(Settled))
              /\ \A k \in 1..Len(Settled) :
                   (Settled[k] \in Offered) <=>
                     (BoundDistance(s[Settled[k][1]], s[Settled[k][2]])
                        < LeastSettled(k - 1))
              /\ (pc = "done") =>
                   /\ Range(examined) = UpperTriangle(size(This))
                   /\ (size(This) >= 2) => (min_dist = MinPairDistance(s))
              /\ (pc = "done" /\ ThreeInARow) =>
                   /\ min_dist = BoundDistance("o1", "o2")
                   /\ Offered = {<<1, 2>>}
                   /\ Range(examined) \ Offered = {<<1, 3>>, <<2, 3>>})
  /\ [][(SelfDistanceTightening /\ pc \in {"loop", "call"})
          => (min_dist' <= min_dist)]_vars

C18_Witness ==
  /\ SelfDistanceTightening /\ pc = "done"
  /\ ThreeInARow
  /\ min_dist = 1
  /\ Len(calls) = 1 /\ Len(examined) = 3

----------------------------------------------------------------------------
(* The cross queries on two registries of several entries each,
   specification SpecCross *)

InitCross ==
  /\ objs \in [Managers -> SeqsUpTo(Objects, MaxCross)]
  /\ registered = [m \in Managers |-> BagOfSeq(objs[m])]
  /\ removed = [m \in Managers |-> EmptyBag]
  /\ last = NoOp
  /\ \E scene \in Scenes : ConstructedWith(scene)
  /\ out = <<>>
  /\ QueryIdle

NextCross ==
  \/ \E other \in Managers : collideOther(other)
  \/ \E other \in Managers, cb \in Callbacks : distanceOther(other, cb)
  \/ Test
  \/ Callback
  \/ InnerEnd
  \/ OuterEnd
  \/ Return

SpecCross == InitCross /\ [][NextCross]_vars

\* the combinations of n entries with m entries in row-major order: all j
\* for the first i, then the next i
CrossOrder(n, m) ==
  [k \in 1..(n * m) |-> <<((k - 1) \div m) + 1, ((k - 1) % m) + 1>>]

\* C19: a cross query between two different managers of n and m entries
\* whose callback has not returned true examines the combinations (entry i of
\* this manager, entry j of the other) in row-major order, each once and all
\* n*m of them by the end; every invocation gets the entry of this manager
\* first and the entry of the other manager second, in the order of the
\* combinations; a collide invocation is made for exactly the combinations
\* with overlapping bounds and a distance invocation only for a combination
\* closer than the running minimum (every combination while the callback
\* leaves the running minimum alone).
C19_CrossQueryWalksTheProduct ==
  /\ [] ((query.loop = "cross" /\ ~stopped) =>
          LET s == objs[This]
              o == objs[query.other]
              n == Len(s)
              m == Len(o)
          IN  /\ query.other # This
              /\ Len(examined) <= n * m
              /\ examined = SubSeq(CrossOrder(n, m), 1, Len(examined))
              /\ (pc = "done") => (examined = CrossOrder(n, m))
              /\ \A k \in 1..Len(calls) :
                   /\ calls[k].a = s[calls[k].i] /\ calls[k].b = o[calls[k].j]
                   /\ <<calls[k].i, calls[k].j>> \in Range(examined)
                   /\ \A l \in 1..(k - 1) :
                        (calls[l].i - 1) * m + calls[l].j
                          < (calls[k].i - 1) * m + calls[k].j
              /\ (query.kind = "collide" /\ pc # "call") =>
                   (Offered = {p \in Range(examined) : BoundsOverlap(s[p[1]], o[p[2]])})
              /\ (query.kind = "distance" /\ query.cb = "keep" /\ pc # "call") =>
                   (Offered = Range(examined))
              /\ (query.kind = "distance" /\ pc = "call") =>
                   (BoundDistance(s[it1], o[it2]) < min_dist))
  /\ [][(query.loop = "cross" /\ pc = "loop" /\ query.kind = "distance"
           /\ Len(examined') = Len(examined) + 1)
         => ((pc' = "call") <=>
               (BoundDistance(objs[This][it1], objs[query.other][it2]) < min_dist))]_vars

C19_Witness ==
  /\ query.form = "collideOther" /\ query.loop = "cross"
  /\ pc = "done" /\ ~stopped
  /\ Len(objs[This]) = 2 /\ Len(objs[query.other]) = 2
  /\ examined = <<<<1, 1>>, <<1, 2>>, <<2, 1>>, <<2, 2>>>>
  /\ Len(calls) \in 1..3
  /\ objs[This] # objs[query.other]

----------------------------------------------------------------------------
(* NaiveCollisionManager: getObjects, setup and update beside the registry
   operations, specification SpecSnap *)

\* the value std::vector::resize fills new places with
NullObject == "null"

\* std::vector::resize(n): the first n elements kept, new places filled
Resize(v, n) ==
  [k \in 1..n |-> IF k <= Len(v) THEN v[k] ELSE NullObject]

\* std::copy(first, last, d_first) onto the head of the vector v
CopyOnto(src, v) ==
  [k \in 1..Len(v) |-> IF k <= Len(src) THEN src[k] ELSE v[k]]

\* a getObjects that appends the entries to what the vector holds
getObjectsAppending(m) ==
  /\ pc = "idle"
  /\ out' = out \o objs[m]
  /\ last' = [op |-> "getObjects", m |-> m, obj |-> "none",
              before |-> [objs |-> objs[m], out |-> out]]
  /\ UNCHANGED <<regVars, objVars, qVars>>

\* getObjects(objs_)
getObjects(m) ==
  /\ pc = "idle"
  /\ out' = CopyOnto(objs[m], Resize(out, size(m)))
  /\ last' = [op |-> "getObjects", m |-> m, obj |-> "none",
              before |-> [objs |-> objs[m], out |-> out]]
  /\ UNCHANGED <<regVars, objVars, qVars>>

\* setup(): the body is empty
setup(m) ==
  /\ pc = "idle"
  /\ last' = [op |-> "setup", m |-> m, obj |-> "none", before |-> objs[m]]
  /\ UNCHANGED <<out, regVars, objVars, qVars>>

\* update(): the body is empty
update(m) ==
  /\ pc = "idle"
  /\ last' = [op |-> "update", m |-> m, obj |-> "none", before |-> objs[m]]
  /\ UNCHANGED <<out, regVars, objVars, qVars>>

\* the manager whose snapshots are taken
SnapManagers == {This}

NextSnap ==
  \/ \E m \in SnapManagers, obj \in Objects : registerObject(m, obj)
  \/ \E m \in SnapManagers, v \in SeqsUpTo(Objects, MaxVec) : registerObjects(m, v)
  \/ \E m \in SnapManagers, obj \in Objects : unregisterObject(m, obj)
  \/ \E m \in SnapManagers : clear(m)
  \/ \E m \in SnapManagers : getObjects(m)
  \/ \E m \in SnapManagers : setup(m)
  \/ \E m \in SnapManagers : update(m)

SpecSnap == InitReg /\ [][NextSnap]_vars

\* C20: after getObjects(out) the vector holds exactly the registry entries,
\* size() of them, in registration order with duplicates kept, whatever it
\* held before, and the registry is as it was; a step that is not getObjects
\* leaves the vector as it is, and setup(), update() and getObjects() leave
\* the registry as it is.
C20_GetObjectsTakesASnapshot ==
  /\ []((last.op = "getObjects") =>
          /\ out = objs[last.m]
          /\ Len(out) = size(last.m)
          /\ BagOfSeq(out) = registered[last.m] (-) removed[last.m]
          /\ objs[last.m] = last.before.objs)
  /\ []((last.op \in {"setup", "update"}) => (objs[last.m] = last.before))
  /\ [][ /\ (last'.op # "getObjects") => (out' = out)
         /\ (last'.op \in {"getObjects", "setup", "update"}) =>
              (objs' = objs /\ registered' = registered /\ removed' = removed)
       ]_vars

\* a second snapshot, shorter than the first and holding one object twice
C20_Witness ==
  /\ last.op = "getObjects"
  /\ Len(last.before.out) = 3
  /\ out = <<"o1", "o1">>
  /\ out # SubSeq(last.before.out, 1, 2)

----------------------------------------------------------------------------
(* Claims about the running minimum and the offered pairs, checked under Spec *)

\* a distance query that has entered its loop
InDistanceLoop == query.kind = "distance" /\ query.loop # "none"

\* C21: in every distance form the manager assigns the running minimum once,
\* seeding it with the maximum representable value when the query starts;
\* no step of the manager between two callback invocations changes it, every
\* change (down or up) is the assignment of a callback invocation, and the
\* value a callback receives is the running minimum as it stands then.
C21_OnlyTheCallbackAssignsTheMinimum ==
  /\ []((InDistanceLoop /\ pc = "call") => (arg = min_dist))
  /\ []((InDistanceLoop /\ calls = <<>>) => (min_dist = RealMax))
  /\ [][ /\ (pc = "idle" /\ InDistanceLoop') => (min_dist' = RealMax)
         /\ (InDistanceLoop /\ pc = "loop") =>
              /\ min_dist' = min_dist
              /\ (pc' = "call") => (arg' = min_dist)
         /\ (InDistanceLoop /\ pc # "done" /\ min_dist' # min_dist) =>
              /\ pc = "call"
              /\ Len(calls') = Len(calls) + 1
              /\ min_dist' \in Assigned(query.cb, First, Second)
       ]_vars

\* the third invocation of a self-distance query is handed the running
\* minimum the two before it left, here a value above the bound distance of
\* a pair offered earlier
C21_Witness ==
  /\ InDistanceLoop /\ pc = "call"
  /\ query.form = "distanceSelf" /\ query.cb = "any"
  /\ Len(calls) = 2
  /\ arg = min_dist
  /\ arg = RealMax
  /\ BoundDistance(calls[1].a, calls[1].b) < BoundDistance(First, Second)

\* every object is registered with this manager at most once
RegisteredAtMostOnce == \A x \in Objects : Count(objs[This], x) <= 1

\* the place of the only entry of s that refers to x
PlaceOf(s, x) == CHOOSE i \in 1..Len(s) : s[i] = x

\* C22: a self-collide or self-distance query offers a pair of one object
\* with itself only if that object is registered more than once; when every
\* object is registered at most once the two members of every offered pair are
\* distinct and the first was registered before the second.  A single-object
\* collide query whose query object is registered, run to the end, does offer
\* the pair (object, object).
C22_SelfPairsNeedDuplicates ==
  /\ (query.form \in {"collideSelf", "distanceSelf"} /\ query.loop = "self") =>
       \A k \in 1..Len(calls) :
         /\ (calls[k].a = calls[k].b) => (Count(objs[This], calls[k].a) >= 2)
         /\ RegisteredAtMostOnce =>
              /\ calls[k].a # calls[k].b
              /\ PlaceOf(objs[This], calls[k].a) < PlaceOf(objs[This], calls[k].b)
  /\ (query.form = "collideObj" /\ pc = "done" /\ ~stopped
        /\ query.obj \in Range(objs[This])) =>
       \E k \in 1..Len(calls) : calls[k].a = query.obj /\ calls[k].b = query.obj

\* a self collide on a registry that holds one object twice offers that object
\* with itself
C22_Witness ==
  /\ query.form = "collideSelf" /\ pc = "done" /\ ~stopped
  /\ size(This) = 3
  /\ ~RegisteredAtMostOnce
  /\ \E k \in 1..Len(calls) : calls[k].a = calls[k].b
  /\ \E k \in 1..Len(calls) : calls[k].a # calls[k].b

====
